---- MODULE Spec2Model ----
(***************************************************************************)
(* Model of src/app.py: the Flask audio-assistant backend.  The server     *)
(* keeps a global dict `sessions` and a folder `uploads`; every route is a  *)
(* handler run by a request thread of the (threaded) development server.   *)
(* Each handler is cut into steps at its accesses to the shared dict and    *)
(* folder, so that Spec interleaves the handlers of concurrent requests,    *)
(* while SpecSeq serves one request at a time.                              *)
(*                                                                          *)
(* Text is modelled as sequences of one-character strings, so that          *)
(* str.lower(), str.endswith(), f"{n:03d}" and string concatenation are     *)
(* computed, not assumed.                                                   *)
(***************************************************************************)
EXTENDS Integers, Sequences, FiniteSets, TLC

VARIABLES
    sessions,   \* the global dict: session_id -> session dict (src/app.py:50)
    uploads,    \* the UPLOAD_FOLDER: stored filename -> bytes
    now,        \* the wall clock: the last value time.time() or datetime.now() returned
    model,      \* the module-level `model`: TRUE when load_model() returned one
    threaded,   \* the server's `threaded` option: requests are served concurrently
    pc,         \* per request thread: the place in its handler
    req,        \* per request thread: the request it serves
    loc,        \* per request thread: the handler's local variables
    resp,       \* per request thread: the JSON response the handler returns
    nreq,       \* history: number of requests accepted so far
    issued,     \* history: per session id, the ticket numbers returned, in order
    created,    \* history: per session id, how often sessions[id] was assigned
    recorded    \* history: per session id, the feedback requests answered with success

vars == <<sessions, uploads, now, model, threaded, pc, req, loc, resp, nreq, issued, created, recorded>>

-----------------------------------------------------------------------------
(* Bounds of the model *)

MaxRequests == 3    \* requests accepted in one run

\* the values the clock takes in a run
Instants == {0, 1}

\* the request threads of the server, in the order in which it takes a free one
Threads == {1, 2}
\* the session ids clients send.  The ids are opaque to the server, so that it
\* loses no behaviour to let the first request of a run name FirstId.
SessionIds == {"s1", "s2"}
FirstId == "s1"

\* original file names a client may upload (file.filename)
A_WAV == <<"a", ".", "w", "a", "v">>
B_MP3 == <<"b", ".", "M", "P", "3">>
D_PDF == <<"d", ".", "p", "d", "f">>

\* the files of upload requests: a name and the bytes.  A FileStorage without a
\* filename is falsy in `if file:`
FileStorages ==
    { [filename |-> A_WAV, data |-> <<1, 2, 3, 255>>],
      [filename |-> B_MP3, data |-> <<254, 16>>],
      [filename |-> D_PDF, data |-> <<37>>],
      [filename |-> << >>, data |-> << >>] }

\* the file lists of upload requests
UploadLists == {<<f>> : f \in FileStorages}

\* chat messages: the empty text is falsy in `if message:`
Texts == {"", "hi"}
Replies == {"ok"}
Ratings == {5}
Comments == {<<"a", ",", "\"">>}

-----------------------------------------------------------------------------
(* Pure functions of the code *)

Digit(d) == <<"0", "1", "2", "3", "4", "5", "6", "7", "8", "9">>[d + 1]

\* str(n) of a non-negative int, as in an f-string's {n}
RECURSIVE Str(_)
Str(n) == IF n < 10 THEN <<Digit(n)>> ELSE Str(n \div 10) \o <<Digit(n % 10)>>

\* f"{n:03d}": zero-padded to a minimum width of 3
Format03d(n) ==
    LET s == Str(n)
    IN  IF Len(s) >= 3 THEN s ELSE [i \in 1..(3 - Len(s)) |-> "0"] \o s

\* the ticket number padded to a width of 2
TicketNumberWidth2(n) ==
    <<"Q">> \o (IF Len(Str(n)) >= 2 THEN Str(n) ELSE <<"0">> \o Str(n))

\* f"Q{ticket_counter:03d}"
TicketNumber(n) == <<"Q">> \o Format03d(n)

\* f"{int(time.time())}_{file.filename}"
StoredName(t, name) == Str(t) \o <<"_">> \o name

Lower(c) ==
    CASE c = "M" -> "m"
      [] c = "P" -> "p"
      [] c = "W" -> "w"
      [] OTHER -> c

\* filename.lower()
LowerStr(s) == [i \in 1..Len(s) |-> Lower(s[i])]

\* s.endswith(suffix)
EndsWith(s, suffix) ==
    /\ Len(s) >= Len(suffix)
    /\ SubSeq(s, Len(s) - Len(suffix) + 1, Len(s)) = suffix

\* the tuple of extensions of the allow-list, in the order of the source
AudioExtensions ==
    << <<".", "w", "a", "v">>, <<".", "m", "p", "3">>, <<".", "a", "i", "f", "f">>,
       <<".", "a", "a", "c">>, <<".", "o", "g", "g">>, <<".", "f", "l", "a", "c">> >>

\* the test of the extension without lower()
IsAudioCaseSensitive(filename) ==
    \E k \in 1..Len(AudioExtensions) : EndsWith(filename, AudioExtensions[k])

\* filename.lower().endswith(('.wav', '.mp3', '.aiff', '.aac', '.ogg', '.flac'))
IsAudio(filename) ==
    \E k \in 1..Len(AudioExtensions) : EndsWith(LowerStr(filename), AudioExtensions[k])

\* the if/elif chain that picks the MIME type
MimeType(filename) ==
    LET f == LowerStr(filename)
    IN  IF EndsWith(f, <<".", "w", "a", "v">>) THEN "audio/wav"
        ELSE IF EndsWith(f, <<".", "m", "p", "3">>) THEN "audio/mp3"
        ELSE IF EndsWith(f, <<".", "a", "i", "f", "f">>) THEN "audio/aiff"
        ELSE IF EndsWith(f, <<".", "a", "a", "c">>) THEN "audio/aac"
        ELSE IF EndsWith(f, <<".", "o", "g", "g">>) THEN "audio/ogg"
        ELSE "audio/flac"

B64Alphabet ==
    << "A", "B", "C", "D", "E", "F", "G", "H", "I", "J", "K", "L", "M", "N", "O", "P",
       "Q", "R", "S", "T", "U", "V", "W", "X", "Y", "Z", "a", "b", "c", "d", "e", "f",
       "g", "h", "i", "j", "k", "l", "m", "n", "o", "p", "q", "r", "s", "t", "u", "v",
       "w", "x", "y", "z", "0", "1", "2", "3", "4", "5", "6", "7", "8", "9", "+", "/" >>

\* base64.b64encode(data).decode('utf-8')
RECURSIVE B64Encode(_)
B64Encode(data) ==
    IF Len(data) = 0 THEN << >>
    ELSE IF Len(data) = 1 THEN
        <<B64Alphabet[(data[1] \div 4) + 1], B64Alphabet[((data[1] % 4) * 16) + 1], "=", "=">>
    ELSE IF Len(data) = 2 THEN
        <<B64Alphabet[(data[1] \div 4) + 1],
          B64Alphabet[((data[1] % 4) * 16 + (data[2] \div 16)) + 1],
          B64Alphabet[((data[2] % 16) * 4) + 1], "=">>
    ELSE
        <<B64Alphabet[(data[1] \div 4) + 1],
          B64Alphabet[((data[1] % 4) * 16 + (data[2] \div 16)) + 1],
          B64Alphabet[((data[2] % 16) * 4 + (data[3] \div 64)) + 1],
          B64Alphabet[(data[3] % 64) + 1]>>
        \o B64Encode(SubSeq(data, 4, Len(data)))

\* datetime.now().isoformat(): the instant in its textual form
IsoFormat(t) == Str(t)

-----------------------------------------------------------------------------
(* State *)

\* a session dict whose counter starts at 1
NewSessionFromOne ==
    [messages |-> << >>, files |-> << >>, ticket_counter |-> 1, feedback |-> << >>]

\* the dict literal {'messages': [], 'files': [], 'ticket_counter': 0, 'feedback': []}
NewSession == [messages |-> << >>, files |-> << >>, ticket_counter |-> 0, feedback |-> << >>]

NoReq == [op |-> "none", session_id |-> "none", message |-> "", files |-> << >>,
          rating |-> 0, comment |-> << >>]

\* locals of a handler.  `detached` says that the object the thread still holds
\* (the files list it iterates, or the session dict of an unfinished `+= 1`) is no
\* longer the one reachable from `sessions`; `snap` is then that list's content.
\* `calls` counts the calls of model.generate_content the handler has made.
NoLoc == [i |-> 0, detached |-> FALSE, snap |-> << >>, v |-> 0, filename |-> << >>,
          user_parts |-> << >>, uploaded_files |-> << >>, del_errors |-> 0, calls |-> 0]

NoResp == [none |-> TRUE]

\* the state after the module is loaded, before app.run() serves requests
Loaded ==
    /\ sessions = << >>
    /\ uploads = << >>
    /\ now = 0
    /\ model \in BOOLEAN
    /\ pc = [t \in Threads |-> "idle"]
    /\ req = [t \in Threads |-> NoReq]
    /\ loc = [t \in Threads |-> NoLoc]
    /\ resp = [t \in Threads |-> NoResp]
    /\ nreq = 0
    /\ issued = [s \in SessionIds |-> << >>]
    /\ created = [s \in SessionIds |-> 0]
    /\ recorded = [s \in SessionIds |-> 0]

\* app.run(debug=True, ...): the development server is threaded by default
Init == Loaded /\ threaded = TRUE

\* the same application behind a server with a single worker
InitSeq == Loaded /\ threaded = FALSE

\* d[k] = v on a Python dict, or a write of file k
Put(d, k, v) == [x \in DOMAIN d \cup {k} |-> IF x = k THEN v ELSE d[x]]

\* os.remove of file k
Del(d, k) == [x \in DOMAIN d \ {k} |-> d[x]]

Sid(t) == req[t].session_id

\* places of a handler at which the thread holds an iterator over a files list
IterPcs == {"ch_next", "ch_read", "cl_next"}

\* The locals of all threads after thread u has bound a new files list (and, with
\* dictToo, a new session dict) to session sid: the other threads that hold the old
\* object keep it, with the content it had.
LocAfterRebind(u, sid, dictToo) ==
    [t \in Threads |->
        IF /\ t # u
           /\ pc[t] # "idle"
           /\ Sid(t) = sid
           /\ ~loc[t].detached
           /\ (pc[t] \in IterPcs \/ (dictToo /\ pc[t] = "ct_store"))
        THEN [loc[t] EXCEPT !.detached = TRUE, !.snap = sessions[sid].files]
        ELSE loc[t]]

\* the list a thread's iterator runs over
IterList(t) == IF loc[t].detached THEN loc[t].snap ELSE sessions[Sid(t)].files

History == <<nreq, issued, created, recorded>>
Config == <<model, threaded>>

-----------------------------------------------------------------------------
(* The server hands a request to its first free thread, which runs the route's
   handler up to its first access to the shared state; a server that is not
   threaded takes a request only when no other is being served *)

\* A handler that has its response returns before anything else happens: the
\* return touches nothing shared, so that this order loses no behaviour.
Running == \A u \in Threads : pc[u] # "done"

\* thread t is at a place of its handler
At(t, place) == pc[t] = place /\ Running

Accept(t, r) ==
    /\ pc[t] = "idle"
    /\ \A u \in Threads : u < t => pc[u] # "idle"
    /\ threaded \/ \A u \in Threads : pc[u] = "idle"
    /\ Running
    /\ nreq < MaxRequests
    /\ nreq = 0 => r.session_id = FirstId
    /\ nreq' = nreq + 1
    /\ req' = [req EXCEPT ![t] = r]

\* the handler returns: the response is sent and the thread is free again
Return(t) ==
    /\ pc[t] = "done"
    /\ pc' = [pc EXCEPT ![t] = "idle"]
    /\ req' = [req EXCEPT ![t] = NoReq]
    /\ loc' = [loc EXCEPT ![t] = NoLoc]
    /\ resp' = [resp EXCEPT ![t] = NoResp]
    /\ UNCHANGED <<sessions, uploads, now, Config, History>>

\* the values time.time() and datetime.now() can return: the clock never runs back
Clock == {time \in Instants : time >= now}

-----------------------------------------------------------------------------
(* `if session_id not in sessions: sessions[session_id] = {...}`, the opening of
   init_session, upload_file, chat, create_ticket and submit_feedback *)

Body(op) ==
    CASE op = "init_session" -> "is_respond"
      [] op = "upload" -> "up_save"
      [] op = "chat" -> "ch_user"
      [] op = "create_ticket" -> "ct_load"
      [] op = "feedback" -> "fb_append"

\* a get-or-create without its test: every request binds a new session dict
GetOrCreateAlways(t, r) ==
    /\ Accept(t, r)
    /\ pc' = [pc EXCEPT ![t] = "create"]
    /\ UNCHANGED <<sessions, uploads, now, Config, loc, resp, issued, created, recorded>>

\* the request arrives and the test `session_id not in sessions` is made
GetOrCreate(t, r) ==
    /\ Accept(t, r)
    /\ pc' = [pc EXCEPT ![t] = IF r.session_id \notin DOMAIN sessions THEN "create"
                                ELSE Body(r.op)]
    /\ UNCHANGED <<sessions, uploads, now, Config, loc, resp, issued, created, recorded>>

\* a creation that binds a new store holding the new session alone
CreateSessionInNewStore(t) ==
    /\ At(t, "create")
    /\ sessions' = Put(<< >>, Sid(t), NewSession)
    /\ created' = [created EXCEPT ![Sid(t)] = @ + 1]
    /\ loc' = LocAfterRebind(t, Sid(t), TRUE)
    /\ pc' = [pc EXCEPT ![t] = Body(req[t].op)]
    /\ UNCHANGED <<uploads, now, Config, req, resp, nreq, issued, recorded>>

\* the assignment `sessions[session_id] = {...}`
CreateSession(t) ==
    /\ At(t, "create")
    /\ sessions' = Put(sessions, Sid(t), NewSession)
    /\ created' = [created EXCEPT ![Sid(t)] = @ + 1]
    /\ loc' = LocAfterRebind(t, Sid(t), TRUE)
    /\ pc' = [pc EXCEPT ![t] = Body(req[t].op)]
    /\ UNCHANGED <<uploads, now, Config, req, resp, nreq, issued, recorded>>

-----------------------------------------------------------------------------
(* /init_session *)

StartInitSession(t, sid) ==
    GetOrCreate(t, [NoReq EXCEPT !.op = "init_session", !.session_id = sid])

InitSessionRespond(t) ==
    /\ At(t, "is_respond")
    /\ resp' = [resp EXCEPT ![t] = [success |-> TRUE,
                                    files |-> sessions[Sid(t)].files,
                                    ticket_counter |-> sessions[Sid(t)].ticket_counter]]
    /\ pc' = [pc EXCEPT ![t] = "done"]
    /\ UNCHANGED <<sessions, uploads, now, Config, req, loc, History>>

-----------------------------------------------------------------------------
(* /api/create-ticket *)

StartCreateTicket(t, sid) ==
    GetOrCreate(t, [NoReq EXCEPT !.op = "create_ticket", !.session_id = sid])

\* `sessions[session_id]['ticket_counter'] += 1`, first half: the session dict is
\* looked up and its counter read
TicketLoad(t) ==
    /\ At(t, "ct_load")
    /\ loc' = [loc EXCEPT ![t].v = sessions[Sid(t)].ticket_counter, ![t].detached = FALSE]
    /\ pc' = [pc EXCEPT ![t] = "ct_store"]
    /\ UNCHANGED <<sessions, uploads, now, Config, req, resp, History>>

\* second half: the sum is stored into the dict that was looked up
TicketStore(t) ==
    /\ At(t, "ct_store")
    /\ sessions' = IF loc[t].detached THEN sessions
                   ELSE [sessions EXCEPT ![Sid(t)].ticket_counter = loc[t].v + 1]
    /\ pc' = [pc EXCEPT ![t] = "ct_format"]
    /\ UNCHANGED <<uploads, now, Config, req, loc, resp, History>>

\* `ticket_number = f"Q{sessions[session_id]['ticket_counter']:03d}"` and the response
TicketFormat(t) ==
    LET ticket_number == TicketNumber(sessions[Sid(t)].ticket_counter)
    IN  /\ At(t, "ct_format")
        /\ resp' = [resp EXCEPT ![t] = [success |-> TRUE, ticket_number |-> ticket_number]]
        /\ issued' = [issued EXCEPT ![Sid(t)] = Append(@, ticket_number)]
        /\ pc' = [pc EXCEPT ![t] = "done"]
        /\ UNCHANGED <<sessions, uploads, now, Config, req, loc, nreq, created, recorded>>

-----------------------------------------------------------------------------
(* /feedback *)

StartFeedback(t, sid, rating, comment) ==
    GetOrCreate(t, [NoReq EXCEPT !.op = "feedback", !.session_id = sid,
                                 !.rating = rating, !.comment = comment])

\* a feedback that puts the new entry at the head of the list
FeedbackPrepend(t, time) ==
    LET feedback_entry == [rating |-> req[t].rating, comment |-> req[t].comment,
                           timestamp |-> IsoFormat(time)]
    IN  /\ At(t, "fb_append")
        /\ sessions' = [sessions EXCEPT ![Sid(t)].feedback = <<feedback_entry>> \o @]
        /\ resp' = [resp EXCEPT ![t] = [success |-> TRUE]]
        /\ recorded' = [recorded EXCEPT ![Sid(t)] = @ + 1]
        /\ now' = time
        /\ pc' = [pc EXCEPT ![t] = "done"]
        /\ UNCHANGED <<uploads, Config, req, loc, nreq, issued, created>>

\* `sessions[session_id]['feedback'].append(feedback_entry)` and the response
FeedbackAppend(t, time) ==
    LET feedback_entry == [rating |-> req[t].rating, comment |-> req[t].comment,
                           timestamp |-> IsoFormat(time)]
    IN  /\ At(t, "fb_append")
        /\ sessions' = [sessions EXCEPT ![Sid(t)].feedback = Append(@, feedback_entry)]
        /\ resp' = [resp EXCEPT ![t] = [success |-> TRUE]]
        /\ recorded' = [recorded EXCEPT ![Sid(t)] = @ + 1]
        /\ now' = time
        /\ pc' = [pc EXCEPT ![t] = "done"]
        /\ UNCHANGED <<uploads, Config, req, loc, nreq, issued, created>>

-----------------------------------------------------------------------------
(* /upload *)

StartUpload(t, sid, files) ==
    GetOrCreate(t, [NoReq EXCEPT !.op = "upload", !.session_id = sid, !.files = files])

\* `for file in files: if file:`: the index of the next file, from index i on, that
\* has a filename; Len(files) + 1 when the loop ends without one
RECURSIVE NextFile(_, _)
NextFile(files, i) ==
    IF i > Len(files) THEN i
    ELSE IF files[i].filename # << >> THEN i
    ELSE NextFile(files, i + 1)

UploadResponse(t, uploaded_files) == [success |-> TRUE, files |-> uploaded_files]

\* `filename = f"{int(time.time())}_{file.filename}"` and `file.save(filepath)`,
\* which writes the file, replacing one of that name; without a file left, the response
UploadSave(t, time) ==
    LET j == NextFile(req[t].files, loc[t].i + 1)
        filename == StoredName(time, req[t].files[j].filename)
    IN  /\ At(t, "up_save")
        /\ IF j > Len(req[t].files)
           THEN /\ resp' = [resp EXCEPT ![t] = UploadResponse(t, loc[t].uploaded_files)]
                /\ pc' = [pc EXCEPT ![t] = "done"]
                /\ time = now
                /\ UNCHANGED <<uploads, loc, now>>
           ELSE /\ uploads' = Put(uploads, filename, req[t].files[j].data)
                /\ loc' = [loc EXCEPT ![t].filename = filename, ![t].i = j]
                /\ pc' = [pc EXCEPT ![t] = "up_append"]
                /\ now' = time
                /\ resp' = resp
        /\ UNCHANGED <<sessions, Config, req, History>>

\* `sessions[session_id]['files'].append(filename)`, `uploaded_files.append(filename)`
\* and, after the last file, the response
UploadAppend(t) ==
    LET uploaded_files == Append(loc[t].uploaded_files, loc[t].filename)
        last == NextFile(req[t].files, loc[t].i + 1) > Len(req[t].files)
    IN  /\ At(t, "up_append")
        /\ sessions' = [sessions EXCEPT ![Sid(t)].files = Append(@, loc[t].filename)]
        /\ loc' = [loc EXCEPT ![t].uploaded_files = uploaded_files]
        /\ resp' = IF last THEN [resp EXCEPT ![t] = UploadResponse(t, uploaded_files)]
                   ELSE resp
        /\ pc' = [pc EXCEPT ![t] = IF last THEN "done" ELSE "up_save"]
        /\ UNCHANGED <<uploads, now, Config, req, History>>

-----------------------------------------------------------------------------
(* /chat *)

StartChat(t, sid, message) ==
    GetOrCreate(t, [NoReq EXCEPT !.op = "chat", !.session_id = sid, !.message = message])

Message(role, content, time) ==
    [role |-> role, content |-> content, timestamp |-> IsoFormat(time)]

\* what `except Exception as e:` returns
ChatError(e) == [error |-> e, response |-> "An error occurred while processing your request."]

\* the user message is appended to the session; when `if model:` fails, the else
\* branch answers that the model is not available
ChatUser(t, time) ==
    /\ At(t, "ch_user")
    /\ sessions' = [sessions EXCEPT ![Sid(t)].messages =
                        Append(@, Message("user", req[t].message, time))]
    /\ now' = time
    /\ IF model
       THEN /\ pc' = [pc EXCEPT ![t] = "ch_parts"]
            /\ resp' = resp
       ELSE /\ pc' = [pc EXCEPT ![t] = "done"]
            /\ resp' = [resp EXCEPT ![t] =
                    [error |-> "Model not available",
                     response |-> "I apologize, but the AI model is currently unavailable."]]
    /\ UNCHANGED <<uploads, Config, req, loc, History>>

\* `user_parts = []`, the text part `if message:`, and the start of the loop
\* `for filename in sessions[session_id]['files']`: the list is looked up
ChatParts(t) ==
    /\ At(t, "ch_parts")
    /\ loc' = [loc EXCEPT ![t].user_parts = IF req[t].message # ""
                                             THEN <<[text |-> req[t].message]>>
                                             ELSE << >>,
                          ![t].i = 0,
                          ![t].detached = FALSE]
    /\ pc' = [pc EXCEPT ![t] = "ch_next"]
    /\ UNCHANGED <<sessions, uploads, now, Config, req, resp, History>>

\* the loop takes the next filename of the list, `if os.path.exists(filepath):`
\* and the test of the extension decide whether the file is read
ChatNext(t) ==
    LET filename == IterList(t)[loc[t].i + 1]
    IN  /\ At(t, "ch_next")
        /\ loc[t].i < Len(IterList(t))
        /\ loc' = [loc EXCEPT ![t].filename = filename, ![t].i = @ + 1]
        /\ pc' = [pc EXCEPT ![t] = IF filename \in DOMAIN uploads /\ IsAudio(filename)
                                    THEN "ch_read" ELSE "ch_next"]
        /\ UNCHANGED <<sessions, uploads, now, Config, req, resp, History>>

\* the inline_data part made of a file's bytes
AudioPart(filename, audio_data) ==
    [inline_data |-> [mime_type |-> MimeType(filename), data |-> B64Encode(audio_data)]]

\* `user_parts.append(part)`
InsertLast(user_parts, part) == Append(user_parts, part)

\* `user_parts.insert(0, part)`
InsertFirst(user_parts, part) == <<part>> \o user_parts

\* `with open(filepath, 'rb')`: the file is read and its part inserted at index 0;
\* open() raises when the file is gone, which the handler's except clause catches
ChatRead(t) ==
    /\ At(t, "ch_read")
    /\ IF loc[t].filename \in DOMAIN uploads
       THEN /\ loc' = [loc EXCEPT ![t].user_parts =
                    InsertFirst(@, AudioPart(loc[t].filename, uploads[loc[t].filename]))]
            /\ pc' = [pc EXCEPT ![t] = "ch_next"]
            /\ resp' = resp
       ELSE /\ resp' = [resp EXCEPT ![t] = ChatError("FileNotFoundError")]
            /\ pc' = [pc EXCEPT ![t] = "done"]
            /\ loc' = loc
    /\ UNCHANGED <<sessions, uploads, now, Config, req, History>>

\* the loop has ended and model.generate_content(...) is called with user_parts
ChatSubmit(t) ==
    /\ At(t, "ch_next")
    /\ loc[t].i >= Len(IterList(t))
    /\ pc' = [pc EXCEPT ![t] = "ch_generate"]
    /\ UNCHANGED <<sessions, uploads, now, Config, req, loc, resp, History>>

\* a chat that answers with the model's reply without appending it to the session
ChatGenerateUnrecorded(t, bot_response, time) ==
    /\ At(t, "ch_generate")
    /\ now' = time
    /\ resp' = [resp EXCEPT ![t] = [success |-> TRUE, response |-> bot_response,
                                    session_ended |-> FALSE]]
    /\ loc' = [loc EXCEPT ![t].calls = @ + 1]
    /\ pc' = [pc EXCEPT ![t] = "done"]
    /\ UNCHANGED <<sessions, uploads, Config, req, History>>

\* model.generate_content(...) returns text: the assistant message is appended
ChatGenerate(t, bot_response, time) ==
    /\ At(t, "ch_generate")
    /\ sessions' = [sessions EXCEPT ![Sid(t)].messages =
                        Append(@, Message("assistant", bot_response, time))]
    /\ now' = time
    /\ resp' = [resp EXCEPT ![t] = [success |-> TRUE, response |-> bot_response,
                                    session_ended |-> FALSE]]
    /\ loc' = [loc EXCEPT ![t].calls = @ + 1]
    /\ pc' = [pc EXCEPT ![t] = "done"]
    /\ UNCHANGED <<uploads, Config, req, History>>

\* a chat without its try/except: the exception of model.generate_content leaves
\* the handler and the server answers with an HTTP 500
ChatGenerateRaises(t) ==
    /\ At(t, "ch_generate")
    /\ resp' = [resp EXCEPT ![t] = [error |-> "Internal Server Error", status |-> 500]]
    /\ loc' = [loc EXCEPT ![t].calls = @ + 1]
    /\ pc' = [pc EXCEPT ![t] = "done"]
    /\ UNCHANGED <<sessions, uploads, now, Config, req, History>>

\* model.generate_content(...) raises, or response.text does: `except Exception`
\* answers with the error and the apology
ChatGenerateFails(t) ==
    /\ At(t, "ch_generate")
    /\ resp' = [resp EXCEPT ![t] = ChatError("InferenceError")]
    /\ loc' = [loc EXCEPT ![t].calls = @ + 1]
    /\ pc' = [pc EXCEPT ![t] = "done"]
    /\ UNCHANGED <<sessions, uploads, now, Config, req, History>>

-----------------------------------------------------------------------------
(* /export/json *)

ExportJsonResponse(sid) ==
    IF sid \in DOMAIN sessions
    THEN [session_id |-> sid,
          messages |-> sessions[sid].messages,
          files |-> sessions[sid].files,
          ticket_counter |-> sessions[sid].ticket_counter]
    ELSE [error |-> "Session not found"]

\* the store after an export_json that opens with the get-or-create of the other routes
ExportJsonCreates(sid) ==
    IF sid \in DOMAIN sessions THEN sessions ELSE Put(sessions, sid, NewSession)

\* the store after export_json: the handler assigns nothing
ExportJsonStore(sid) == sessions

ExportJson(t, sid) ==
    /\ Accept(t, [NoReq EXCEPT !.op = "export_json", !.session_id = sid])
    /\ resp' = [resp EXCEPT ![t] = ExportJsonResponse(sid)]
    /\ sessions' = ExportJsonStore(sid)
    /\ pc' = [pc EXCEPT ![t] = "done"]
    /\ UNCHANGED <<uploads, now, Config, loc, issued, created, recorded>>

-----------------------------------------------------------------------------
(* /clear *)

\* the request arrives and `if session_id in sessions:` is tested; an unknown id
\* is answered at once
StartClear(t, sid) ==
    /\ Accept(t, [NoReq EXCEPT !.op = "clear", !.session_id = sid])
    /\ IF sid \in DOMAIN sessions
       THEN /\ pc' = [pc EXCEPT ![t] = "cl_iter"]
            /\ resp' = resp
       ELSE /\ pc' = [pc EXCEPT ![t] = "done"]
            /\ resp' = [resp EXCEPT ![t] = [success |-> FALSE, error |-> "Session not found"]]
    /\ UNCHANGED <<sessions, uploads, now, Config, loc, issued, created, recorded>>

\* the start of `for filename in sessions[session_id]['files']`: the list is looked up
ClearIter(t) ==
    /\ At(t, "cl_iter")
    /\ loc' = [loc EXCEPT ![t].i = 0, ![t].detached = FALSE]
    /\ pc' = [pc EXCEPT ![t] = "cl_next"]
    /\ UNCHANGED <<sessions, uploads, now, Config, req, resp, History>>

\* the folder after `if os.path.exists(filepath): os.remove(filepath)`, when
\* os.remove raises (raises) and when it does not
Remove(filename, raises) ==
    IF filename \in DOMAIN uploads /\ ~raises THEN Del(uploads, filename) ELSE uploads

\* the loop without its try/except: an os.remove that raises ends the handler
\* with an HTTP 500
ClearDeleteUncaught(t, raises) ==
    LET filename == IterList(t)[loc[t].i + 1]
    IN  /\ At(t, "cl_next")
        /\ loc[t].i < Len(IterList(t))
        /\ raises => filename \in DOMAIN uploads
        /\ uploads' = Remove(filename, raises)
        /\ loc' = [loc EXCEPT ![t].filename = filename, ![t].i = @ + 1]
        /\ pc' = [pc EXCEPT ![t] = IF raises THEN "done" ELSE "cl_next"]
        /\ resp' = IF raises THEN [resp EXCEPT ![t] = [success |-> FALSE, error |-> "500"]]
                   ELSE resp
        /\ UNCHANGED <<sessions, now, Config, req, History>>

\* the loop takes the next filename; the file is absent, or removed, or os.remove
\* raises and the except clause prints the error
ClearDelete(t, raises) ==
    LET filename == IterList(t)[loc[t].i + 1]
    IN  /\ At(t, "cl_next")
        /\ loc[t].i < Len(IterList(t))
        /\ raises => filename \in DOMAIN uploads
        /\ uploads' = Remove(filename, raises)
        /\ loc' = [loc EXCEPT ![t].filename = filename, ![t].i = @ + 1,
                              ![t].del_errors = IF raises THEN @ + 1 ELSE @]
        /\ UNCHANGED <<sessions, now, Config, pc, req, resp, History>>

\* a clear that binds a new session dict instead of emptying the two lists
ClearWholeSession(t) ==
    /\ At(t, "cl_next")
    /\ loc[t].i >= Len(IterList(t))
    /\ sessions' = [sessions EXCEPT ![Sid(t)] = NewSession]
    /\ pc' = [pc EXCEPT ![t] = "cl_files"]
    /\ UNCHANGED <<uploads, now, Config, req, loc, resp, History>>

\* the loop has ended: `sessions[session_id]['messages'] = []`
ClearMessages(t) ==
    /\ At(t, "cl_next")
    /\ loc[t].i >= Len(IterList(t))
    /\ sessions' = [sessions EXCEPT ![Sid(t)].messages = << >>]
    /\ pc' = [pc EXCEPT ![t] = "cl_files"]
    /\ UNCHANGED <<uploads, now, Config, req, loc, resp, History>>

\* `sessions[session_id]['files'] = []` and the response
ClearFiles(t) ==
    /\ At(t, "cl_files")
    /\ sessions' = [sessions EXCEPT ![Sid(t)].files = << >>]
    /\ loc' = LocAfterRebind(t, Sid(t), FALSE)
    /\ resp' = [resp EXCEPT ![t] = [success |-> TRUE]]
    /\ pc' = [pc EXCEPT ![t] = "done"]
    /\ UNCHANGED <<uploads, now, Config, req, History>>

-----------------------------------------------------------------------------
(* /export/feedback *)

\* f"{fb['timestamp']},{fb['rating']},\"{fb['comment']}\"\n"
CsvRow(fb) ==
    fb.timestamp \o <<",">> \o Str(fb.rating) \o <<",", "\"">> \o fb.comment \o <<"\"", "\n">>

\* the loop `for fb in sessions[session_id]['feedback']: csv_data += f"..."`
RECURSIVE CsvRows(_, _)
CsvRows(csv_data, feedback) ==
    IF feedback = << >> THEN csv_data
    ELSE CsvRows(csv_data \o CsvRow(Head(feedback)), Tail(feedback))

\* "Timestamp,Rating,Comment\n"
CsvHeader == <<"Timestamp", ",", "Rating", ",", "Comment", "\n">>

\* export_feedback without the test of the feedback list
ExportFeedbackOfAnySession(sid) ==
    IF sid \in DOMAIN sessions
    THEN [success |-> TRUE,
          csv_data |-> CsvRows(CsvHeader, sessions[sid].feedback),
          filename |-> <<"feedback_", sid, ".csv">>]
    ELSE [success |-> FALSE, error |-> "No feedback data available"]

ExportFeedbackResponse(sid) ==
    IF sid \in DOMAIN sessions /\ sessions[sid].feedback # << >>
    THEN [success |-> TRUE,
          csv_data |-> CsvRows(CsvHeader, sessions[sid].feedback),
          filename |-> <<"feedback_", sid, ".csv">>]
    ELSE [success |-> FALSE, error |-> "No feedback data available"]

ExportFeedback(t, sid) ==
    /\ Accept(t, [NoReq EXCEPT !.op = "export_feedback", !.session_id = sid])
    /\ resp' = [resp EXCEPT ![t] = ExportFeedbackResponse(sid)]
    /\ pc' = [pc EXCEPT ![t] = "done"]
    /\ UNCHANGED <<sessions, uploads, now, Config, loc, issued, created, recorded>>

-----------------------------------------------------------------------------
(* The server *)

Next ==
    \E t \in Threads :
        \/ \E sid \in SessionIds : StartInitSession(t, sid)
        \/ \E sid \in SessionIds, files \in UploadLists : StartUpload(t, sid, files)
        \/ \E sid \in SessionIds, message \in Texts : StartChat(t, sid, message)
        \/ \E sid \in SessionIds : StartCreateTicket(t, sid)
        \/ \E sid \in SessionIds : ExportJson(t, sid)
        \/ \E sid \in SessionIds : StartClear(t, sid)
        \/ \E sid \in SessionIds, rating \in Ratings, comment \in Comments :
                StartFeedback(t, sid, rating, comment)
        \/ \E sid \in SessionIds : ExportFeedback(t, sid)
        \/ CreateSession(t)
        \/ InitSessionRespond(t)
        \/ \E time \in Clock : UploadSave(t, time)
        \/ UploadAppend(t)
        \/ \E time \in Clock : ChatUser(t, time)
        \/ ChatParts(t)
        \/ ChatNext(t)
        \/ ChatRead(t)
        \/ ChatSubmit(t)
        \/ \E bot_response \in Replies, time \in Clock : ChatGenerate(t, bot_response, time)
        \/ ChatGenerateFails(t)
        \/ TicketLoad(t)
        \/ TicketStore(t)
        \/ TicketFormat(t)
        \/ ClearIter(t)
        \/ \E raises \in BOOLEAN : ClearDelete(t, raises)
        \/ ClearMessages(t)
        \/ ClearFiles(t)
        \/ \E time \in Clock : FeedbackAppend(t, time)
        \/ Return(t)

\* the threaded server: the handlers of concurrent requests interleave
Spec == Init /\ [][Next]_vars

\* the server with one worker: a request is served to its end before the next
SpecSeq == InitSeq /\ [][Next]_vars

-----------------------------------------------------------------------------
(* Properties *)

Op(t) == req[t].op

\* no two entries of a sequence are equal
Distinct(seq) == \A i, j \in 1..Len(seq) : i # j => seq[i] # seq[j]

\* a create-ticket request on session s is being served
TicketInFlight(s) == \E t \in Threads : pc[t] # "idle" /\ Op(t) = "create_ticket" /\ Sid(t) = s

\* C1: concurrent create-ticket requests on one session never return the same
\* ticket number, and once they all have returned, the ticket counter of the
\* session has grown by their number.
C1_UniqueTickets ==
    \A s \in SessionIds :
        /\ Distinct(issued[s])
        /\ (s \in DOMAIN sessions /\ ~TicketInFlight(s))
                => sessions[s].ticket_counter = Len(issued[s])

\* the same, for the requests on a session that was created only once: the
\* duplicate then comes from the unguarded `+= 1` alone
C1_UniqueTicketsOfOneDict ==
    \A s \in SessionIds : created[s] <= 1 => Distinct(issued[s])

\* the routes that open with `if session_id not in sessions: sessions[...] = {...}`
CreatingOps == {"init_session", "upload", "chat", "create_ticket", "feedback"}

\* C2 as stated: whatever the kind of the first operation that names an id, the
\* store then holds a session for the id.
C2_EveryOperationCreates ==
    \A t \in Threads : pc[t] = "done" => Sid(t) \in DOMAIN sessions

\* the place at which a handler has done its get-or-create and nothing else yet
Opened(t) == pc[t] \in {"idle", "create"} /\ pc'[t] \notin {"idle", "create", "done"}

\* C2, amended: when the first operation naming an unseen id is init_session,
\* upload, chat, create-ticket or feedback, the store holds the all-default session
\* for the id before the operation's own effect; on a known id the store is left
\* as it is; clear, export/json and export/feedback never add a session and
\* answer an unseen id with an error.
C2_CreateIfAbsent ==
    [][\A t \in Threads :
        LET sid == req'[t].session_id
        IN  /\ (Opened(t) /\ req'[t].op \in CreatingOps) =>
                /\ sid \in DOMAIN sessions'
                /\ sid \notin DOMAIN sessions =>
                        sessions'[sid] = [messages |-> << >>, files |-> << >>,
                                          ticket_counter |-> 0, feedback |-> << >>]
                /\ sid \in DOMAIN sessions => sessions' = sessions
            /\ (pc'[t] # "idle" /\ req'[t].op \notin CreatingOps) =>
                /\ DOMAIN sessions' = DOMAIN sessions
                /\ (pc'[t] = "done" /\ sid \notin DOMAIN sessions) =>
                        /\ "error" \in DOMAIN resp'[t]
                        /\ "session_id" \notin DOMAIN resp'[t]
    ]_vars

\* a feedback request, the first to name its id, has had the session made for it
C2_Witness ==
    \E t \in Threads :
        /\ pc[t] = "fb_append"
        /\ created[Sid(t)] = 1
        /\ sessions[Sid(t)].feedback = << >>
        /\ Sid(t) # FirstId

\* C3: get-or-create is atomic: a session is created once, and what the requests
\* that named it have done is in it: every feedback entry answered with success,
\* and every ticket issued.
C3_AtomicGetOrCreate ==
    \A s \in SessionIds :
        /\ created[s] <= 1
        /\ s \in DOMAIN sessions =>
                /\ Len(sessions[s].feedback) = recorded[s]
                /\ ~TicketInFlight(s) => sessions[s].ticket_counter = Len(issued[s])

\* the part of C3 about the effects alone: no feedback entry is lost
C3_NoLostFeedback ==
    \A s \in DOMAIN sessions : Len(sessions[s].feedback) = recorded[s]

\* "Q" and k zero-padded to width 3, written out for k < 1000
PaddedTicket(k) ==
    <<"Q", Digit((k \div 100) % 10), Digit((k \div 10) % 10), Digit(k % 10)>>

\* the format of the ticket number on numbers of one to four digits
TicketFormatOk ==
    /\ \A n \in 0..999 : TicketNumber(n) = PaddedTicket(n)
    /\ \A n \in 1000..1010 : TicketNumber(n) = <<"Q", "1">> \o Tail(PaddedTicket(n))

\* C4: served one at a time, the k-th create-ticket call on a session returns "Q"
\* and k zero-padded to width 3, whatever other operations come between, and the
\* number returned is the format of the counter stored by the call.
C4_SequentialTickets ==
    /\ TicketFormatOk
    /\ \A s \in SessionIds : \A k \in 1..Len(issued[s]) : issued[s][k] = PaddedTicket(k)
    /\ \A t \in Threads : (pc[t] = "done" /\ Op(t) = "create_ticket") =>
            /\ resp[t].ticket_number = PaddedTicket(sessions[Sid(t)].ticket_counter)
            /\ resp[t].ticket_number = issued[Sid(t)][Len(issued[Sid(t)])]
            /\ sessions[Sid(t)].ticket_counter = Len(issued[Sid(t)])

\* the second ticket of a session that has been cleared and holds feedback
C4_Witness ==
    \E t \in Threads :
        /\ pc[t] = "done"
        /\ Op(t) = "create_ticket"
        /\ resp[t].ticket_number = <<"Q", "0", "0", "2">>
        /\ sessions[Sid(t)].feedback # << >>

\* C5: no step of clear changes the feedback or the ticket counter of a session,
\* so that export/feedback answers after the clear as before it, and the clear
\* ends with messages and files empty, as export/json then shows.
C5_ClearKeepsFeedback ==
    [][\A t \in Threads, sid \in SessionIds :
        (pc'[t] # "idle" /\ req'[t].op = "clear" /\ req'[t].session_id = sid) =>
            /\ \A s \in DOMAIN sessions :
                /\ sessions'[s].feedback = sessions[s].feedback
                /\ sessions'[s].ticket_counter = sessions[s].ticket_counter
            /\ ExportFeedbackResponse(sid)' = ExportFeedbackResponse(sid)
            /\ (pc'[t] = "done" /\ resp'[t].success) =>
                /\ ExportJsonResponse(sid)'.messages = << >>
                /\ ExportJsonResponse(sid)'.files = << >>
                /\ ExportJsonResponse(sid)'.ticket_counter = sessions[sid].ticket_counter
    ]_vars

\* a clear has ended on a session that holds feedback and has issued a ticket
C5_Witness ==
    \E t \in Threads :
        /\ pc[t] = "done"
        /\ Op(t) = "clear"
        /\ resp[t].success
        /\ sessions[Sid(t)].feedback # << >>
        /\ sessions[Sid(t)].ticket_counter = 1

\* the files of a list that are in the folder, counted with their repetitions
Present(files) == {k \in 1..Len(files) : files[k] \in DOMAIN uploads}

\* C6: a clear of an existing session goes through all of its files, whatever
\* each deletion does, and ends with success and with messages and files empty:
\* a file still in the folder after the loop is one whose deletion raised.
C6_ClearAlwaysSucceeds ==
    \A t \in Threads : Op(t) = "clear" =>
        /\ pc[t] = "cl_files" =>
                /\ loc[t].i = Len(sessions[Sid(t)].files)
                /\ Cardinality(Present(sessions[Sid(t)].files)) <= loc[t].del_errors
        /\ (pc[t] = "done" /\ Sid(t) \in DOMAIN sessions) =>
                /\ resp[t] = [success |-> TRUE]
                /\ sessions[Sid(t)].messages = << >>
                /\ sessions[Sid(t)].files = << >>

\* a clear of two files has ended with success although the deletion of the
\* first raised, and the second is gone
C6_Witness ==
    \E t \in Threads :
        /\ pc[t] = "done"
        /\ Op(t) = "clear"
        /\ resp[t] = [success |-> TRUE]
        /\ loc[t].i = 2
        /\ loc[t].del_errors = 1
        /\ loc[t].filename \notin DOMAIN uploads
        /\ uploads # << >>

\* C7: export/json answers an id that was never created with the error 'Session
\* not found' and an existing one with its messages, files and ticket counter, and
\* in both cases leaves the store and the folder as they were.
C7_ExportJsonReadOnly ==
    [][\A t \in Threads : (pc[t] = "idle" /\ pc'[t] # "idle" /\ req'[t].op = "export_json") =>
        LET sid == req'[t].session_id
        IN  /\ sessions' = sessions
            /\ uploads' = uploads
            /\ pc'[t] = "done"
            /\ IF sid \in DOMAIN sessions
               THEN resp'[t] = [session_id |-> sid,
                                messages |-> sessions[sid].messages,
                                files |-> sessions[sid].files,
                                ticket_counter |-> sessions[sid].ticket_counter]
               ELSE resp'[t] = [error |-> "Session not found"]
    ]_vars

\* export/json has answered 'Session not found' for the third time in a row
C7_Witness ==
    \E t \in Threads :
        /\ pc[t] = "done"
        /\ Op(t) = "export_json"
        /\ resp[t] = [error |-> "Session not found"]
        /\ nreq = 3
        /\ sessions = << >>

\* the lines of a text: the pieces that end with a line feed
RECURSIVE Lines(_, _)
Lines(text, line) ==
    IF text = << >> THEN IF line = << >> THEN << >> ELSE <<line>>
    ELSE IF Head(text) = "\n" THEN <<line>> \o Lines(Tail(text), << >>)
    ELSE Lines(Tail(text), Append(line, Head(text)))

\* C8: export/feedback answers with the error, and no table, exactly when the
\* session does not exist or has no feedback; otherwise the table is the header
\* line and then one line for each feedback entry, in the order of the entries.
C8_FeedbackCsv ==
    \A t \in Threads : (pc[t] = "done" /\ Op(t) = "export_feedback") =>
        LET sid == Sid(t)
            nodata == sid \notin DOMAIN sessions \/ sessions[sid].feedback = << >>
        IN  /\ nodata => resp[t] = [success |-> FALSE, error |-> "No feedback data available"]
            /\ ~nodata =>
                LET feedback == sessions[sid].feedback
                    lines == Lines(resp[t].csv_data, << >>)
                IN  /\ resp[t].success
                    /\ Len(lines) = 1 + Len(feedback)
                    /\ lines[1] = <<"Timestamp", ",", "Rating", ",", "Comment">>
                    /\ \A k \in 1..Len(feedback) :
                            lines[k + 1] = feedback[k].timestamp \o <<",">>
                                           \o Str(feedback[k].rating) \o <<",", "\"">>
                                           \o feedback[k].comment \o <<"\"">>

\* a table of two different entries has been exported
C8_Witness ==
    \E t \in Threads :
        /\ pc[t] = "done"
        /\ Op(t) = "export_feedback"
        /\ resp[t].success
        /\ Len(sessions[Sid(t)].feedback) = 2
        /\ sessions[Sid(t)].feedback[1] # sessions[Sid(t)].feedback[2]

\* the files of a session that chat turns into parts
Qualifying(files) == SelectSeq(files, LAMBDA f : f \in DOMAIN uploads /\ IsAudio(f))

\* C9: the parts submitted to the model are the audio parts of the session's
\* files, the last file first, and then the text part, if the text is not empty.
C9_PartsOrder ==
    \A t \in Threads : pc[t] = "ch_generate" =>
        LET parts == loc[t].user_parts
            q == Qualifying(sessions[Sid(t)].files)
            n == Len(q)
        IN  /\ Len(parts) = n + (IF req[t].message # "" THEN 1 ELSE 0)
            /\ \A k \in 1..n :
                parts[k] = [inline_data |->
                                [mime_type |-> MimeType(q[n + 1 - k]),
                                 data |-> B64Encode(uploads[q[n + 1 - k]])]]
            /\ req[t].message # "" => parts[n + 1] = [text |-> req[t].message]

\* two different audio files and a text are submitted
C9_Witness ==
    \E t \in Threads :
        /\ pc[t] = "ch_generate"
        /\ Len(loc[t].user_parts) = 3
        /\ loc[t].user_parts[1] # loc[t].user_parts[2]
        /\ loc[t].user_parts[3] = [text |-> "hi"]

\* the extension of a filename: what follows its last dot, in lower case
Extension(filename) ==
    LET dots == {i \in 1..Len(filename) : filename[i] = "."}
        last == CHOOSE i \in dots : \A j \in dots : j <= i
    IN  IF dots = {} THEN << >>
        ELSE LowerStr(SubSeq(filename, last + 1, Len(filename)))

AllowList ==
    { <<"w", "a", "v">>, <<"m", "p", "3">>, <<"a", "i", "f", "f">>,
      <<"a", "a", "c">>, <<"o", "g", "g">>, <<"f", "l", "a", "c">> }

\* C10: the submitted parts hold one audio part for each file of the session that
\* is in the folder and has an extension of the allow-list, whatever its case,
\* and nothing for the other files; without such a file they are the text part
\* alone, or empty, and are submitted all the same; a file passed over is no error.
C10_OnlyAllowedAudio ==
    \A t \in Threads : Op(t) = "chat" =>
        LET files == sessions[Sid(t)].files
            allowed == {k \in Present(files) : Extension(files[k]) \in AllowList}
            parts == loc[t].user_parts
            audio == {k \in 1..Len(parts) : "inline_data" \in DOMAIN parts[k]}
        IN  /\ pc[t] = "ch_generate" =>
                /\ Cardinality(audio) = Cardinality(allowed)
                /\ allowed = {} => parts = IF req[t].message # ""
                                           THEN <<[text |-> req[t].message]>> ELSE << >>
            /\ (pc[t] = "done" /\ "error" \in DOMAIN resp[t]) =>
                    resp[t].error \in {"Model not available", "InferenceError"}

\* a chat without text on a session whose only file is no audio file submits
\* the empty list of parts
C10_Witness ==
    \E t \in Threads :
        /\ pc[t] = "ch_generate"
        /\ loc[t].user_parts = << >>
        /\ Len(sessions[Sid(t)].files) = 1
        /\ sessions[Sid(t)].files[1] \in DOMAIN uploads

\* C11: a chat calls the model at most once, and a call that fails is answered
\* with an error field and the fixed apology, as an ordinary response of the
\* handler; the session is still in the store, with the user message, for the
\* requests that follow.
C11_InferenceFailureDegrades ==
    \A t \in Threads : Op(t) = "chat" =>
        /\ loc[t].calls <= 1
        /\ loc[t].calls = 1 => pc[t] = "done"
        /\ (pc[t] = "done" /\ loc[t].calls = 1 /\ "success" \notin DOMAIN resp[t]) =>
                /\ DOMAIN resp[t] = {"error", "response"}
                /\ resp[t].response = "An error occurred while processing your request."
                /\ Sid(t) \in DOMAIN sessions
                /\ LET messages == sessions[Sid(t)].messages
                   IN  /\ messages # << >>
                       /\ messages[Len(messages)].role = "user"
                       /\ messages[Len(messages)].content = req[t].message

\* a chat has been answered with the model's reply on a session on which the
\* chat before it failed in the call of the model
C11_Witness ==
    \E t \in Threads :
        /\ pc[t] = "done"
        /\ Op(t) = "chat"
        /\ "success" \in DOMAIN resp[t]
        /\ model
        /\ Len(sessions[Sid(t)].messages) = 3
        /\ sessions[Sid(t)].messages[2].role = "user"
        /\ sessions[Sid(t)].files = << >>

\* C12: the ticket counter of a session is a natural number that is 0 when the
\* session is created; a step changes it only when it is the `+= 1` of a
\* create-ticket call on that session, which adds exactly 1; no other step of any
\* operation changes it, and no session leaves the store.
C12_CounterMonotone ==
    [][/\ \A s \in DOMAIN sessions' : sessions'[s].ticket_counter \in Nat
       /\ \A s \in DOMAIN sessions' \ DOMAIN sessions : sessions'[s].ticket_counter = 0
       /\ \A s \in DOMAIN sessions :
            /\ s \in DOMAIN sessions'
            /\ sessions'[s].ticket_counter >= sessions[s].ticket_counter
            /\ sessions'[s].ticket_counter # sessions[s].ticket_counter =>
                    \E t \in Threads : /\ Op(t) = "create_ticket"
                                       /\ Sid(t) = s
                                       /\ pc[t] = "ct_store"
                                       /\ pc'[t] = "ct_format"
       /\ \A t \in Threads : (pc[t] = "ct_store" /\ pc'[t] = "ct_format") =>
            sessions'[Sid(t)].ticket_counter = sessions[Sid(t)].ticket_counter + 1
    ]_vars

\* init_session on a session that has issued two tickets answers with the
\* counter at 2
C12_Witness ==
    \E t \in Threads :
        /\ pc[t] = "done"
        /\ Op(t) = "init_session"
        /\ resp[t].ticket_counter = 2
        /\ sessions[Sid(t)].ticket_counter = 2

\* list a is a prefix of list b
IsPrefix(a, b) == Len(a) <= Len(b) /\ SubSeq(b, 1, Len(a)) = a

\* the step is one of the two assignments that end a clear of session s
ClearStep(s) ==
    \E t \in Threads : /\ Op(t) = "clear"
                       /\ Sid(t) = s
                       /\ pc[t] \in {"cl_next", "cl_files"}
                       /\ pc'[t] # pc[t]

\* C13: over every step the feedback of a session is a prefix of its feedback
\* after the step, and so are its messages and its files unless the step belongs
\* to a clear of that session, which empties them; hence an earlier value is a
\* prefix of every later one up to the next clear.
C13_AppendOnly ==
    [][\A s \in DOMAIN sessions :
        /\ s \in DOMAIN sessions'
        /\ IsPrefix(sessions[s].feedback, sessions'[s].feedback)
        /\ IF ClearStep(s)
           THEN /\ sessions'[s].messages \in {sessions[s].messages, << >>}
                /\ sessions'[s].files \in {sessions[s].files, << >>}
           ELSE /\ IsPrefix(sessions[s].messages, sessions'[s].messages)
                /\ IsPrefix(sessions[s].files, sessions'[s].files)
    ]_vars

\* a second file has been appended to the files of a session that holds a
\* feedback entry
C13_Witness ==
    \E t \in Threads :
        /\ pc[t] = "done"
        /\ Op(t) = "upload"
        /\ Len(sessions[Sid(t)].files) = 2
        /\ Len(sessions[Sid(t)].feedback) = 1

\* the file references of the store: a session and a place in its files list
FileRefs ==
    {r \in (DOMAIN sessions) \X (1..MaxRequests) : r[2] <= Len(sessions[r[1]].files)}

\* C14: two uploads of one original name get different stored names when their
\* timestamps differ, and uploads whose timestamps coincide are not silently
\* stored under one name: no blob is written twice, so that no two file
\* references, of one session or of two, denote the same blob.
C14_NoSilentCollision ==
    /\ \A f \in FileStorages, t1, t2 \in Instants :
            t1 # t2 => StoredName(t1, f.filename) # StoredName(t2, f.filename)
    /\ \A r1, r2 \in FileRefs :
            r1 # r2 => sessions[r1[1]].files[r1[2]] # sessions[r2[1]].files[r2[2]]
    /\ \A t \in Threads : (Op(t) = "upload" /\ pc[t] = "up_append") =>
            \A r \in FileRefs : sessions[r[1]].files[r[2]] # loc[t].filename

\* the messages of session sid, none when the store has no such session
MessagesOf(store, sid) == IF sid \in DOMAIN store THEN store[sid].messages ELSE << >>

\* C15: a chat appends the user message once, before the model is called, and
\* the assistant message once, after the call has returned text; no other step
\* of the chat touches the messages.  A chat answered with success has thus
\* appended the pair (user, assistant), and a chat whose call failed or whose
\* model is unavailable has appended the user message alone.
C15_ChatMessages ==
    [][\A t \in Threads, sid \in SessionIds :
        (pc'[t] # "idle" /\ req'[t].op = "chat" /\ req'[t].session_id = sid) =>
            LET before == MessagesOf(sessions, sid)
                after == MessagesOf(sessions', sid)
                user == [role |-> "user", content |-> req'[t].message,
                         timestamp |-> IsoFormat(now')]
            IN  /\ pc'[t] = "ch_user" => pc[t] \in {"idle", "create"}
                /\ pc[t] = "ch_user" => pc'[t] \in {"ch_parts", "done"}
                /\ pc'[t] = "ch_generate" => pc[t] = "ch_next"
                /\ pc[t] = "ch_generate" => pc'[t] = "done"
                /\ IF pc[t] = "ch_user"
                   THEN after = Append(before, user)
                   ELSE IF pc[t] = "ch_generate" /\ "success" \in DOMAIN resp'[t]
                   THEN after = Append(before, [role |-> "assistant",
                                                content |-> resp'[t].response,
                                                timestamp |-> IsoFormat(now')])
                   ELSE after = before
                /\ pc'[t] \in {"ch_parts", "ch_next", "ch_read", "ch_generate"} =>
                        /\ after # << >>
                        /\ after[Len(after)].role = "user"
                        /\ after[Len(after)].content = req'[t].message
                /\ (pc'[t] = "done" /\ "success" \in DOMAIN resp'[t]) =>
                        /\ pc[t] = "ch_generate"
                        /\ Len(after) >= 2
                        /\ after[Len(after) - 1].role = "user"
                        /\ after[Len(after) - 1].content = req'[t].message
                /\ (pc'[t] = "done" /\ "success" \notin DOMAIN resp'[t]) =>
                        /\ pc[t] \in {"ch_user", "ch_generate"}
                        /\ after[Len(after)].role = "user"
                        /\ after[Len(after)].content = req'[t].message
    ]_vars

\* a chat has been answered with the model's reply: the session holds the user
\* message and, after it and with a later timestamp, the assistant message
C15_Witness ==
    \E t \in Threads :
        /\ pc[t] = "done"
        /\ Op(t) = "chat"
        /\ "success" \in DOMAIN resp[t]
        /\ Len(sessions[Sid(t)].messages) = 2
        /\ sessions[Sid(t)].messages[1].role = "user"
        /\ sessions[Sid(t)].messages[2].role = "assistant"
        /\ sessions[Sid(t)].messages[1].timestamp # sessions[Sid(t)].messages[2].timestamp

\* C16: a file reference whose blob is missing when chat assembles its parts is
\* passed over and never turns the answer of the chat into an error, also when a
\* clear of the same session removes the blob between the existence test of the
\* chat and its read: the only errors a chat answers with are those of the model.
C16_MissingBlobSkipped ==
    \A t \in Threads : (Op(t) = "chat" /\ pc[t] = "done" /\ "error" \in DOMAIN resp[t]) =>
        resp[t].error \in {"Model not available", "InferenceError"}

\* the thread whose handler takes the step
Mover(t) == pc'[t] # pc[t] \/ loc'[t].i # loc[t].i

\* the session id of the request that the handler of thread t serves in the step
Target(t) == IF pc[t] = "idle" THEN req'[t].session_id ELSE req[t].session_id

\* C17: every step is a step of one request, and a step of a request with
\* session id A leaves every other id B as it is in the store: B's session is
\* neither added nor removed, and its messages, files, ticket counter and
\* feedback are unchanged, however the requests of different ids interleave.
C17_SessionsIsolated ==
    [][/\ \E t \in Threads : Mover(t)
       /\ \A t \in Threads : Mover(t) =>
            \A b \in SessionIds \ {Target(t)} :
                /\ b \in DOMAIN sessions' <=> b \in DOMAIN sessions
                /\ b \in DOMAIN sessions => sessions'[b] = sessions[b]
    ]_vars

\* a chat on one session and a create-ticket on another, which has issued a
\* ticket before, are served at the same time
C17_Witness ==
    \E t, u \in Threads :
        /\ Op(t) = "chat"
        /\ pc[t] = "ch_generate"
        /\ Op(u) = "create_ticket"
        /\ pc[u] = "ct_format"
        /\ Sid(t) # Sid(u)
        /\ sessions[Sid(u)].ticket_counter = 2
        /\ sessions[Sid(t)].messages # << >>

\* a clear of session s is being served
ClearInFlight(s) == \E t \in Threads : pc[t] # "idle" /\ Op(t) = "clear" /\ Sid(t) = s

\* C18: every file reference of a session that is not being cleared has its blob
\* in the folder, with the bytes that were uploaded under that name, whatever
\* uploads and clears the other sessions have made.
C18_BlobsOfOtherSessionsKept ==
    \A r \in FileRefs : ~ClearInFlight(r[1]) =>
        LET filename == sessions[r[1]].files[r[2]]
        IN  /\ filename \in DOMAIN uploads
            /\ \E f \in FileStorages, time \in Instants :
                    /\ filename = StoredName(time, f.filename)
                    /\ uploads[filename] = f.data

====
